---- MODULE Spec2Model ----
(***************************************************************************)
(* Layer-reorganisation engine of the LOD/kit filter (lodkitfilter.py).    *)
(* Host scene (objects, layers, tag file) and the module-level caches of   *)
(* the engine are the state; enable_filter, disable_filter, make_layers    *)
(* and apply_filter_from_button_states are the operations.                 *)
(* Strings are sequences of one-character strings.                         *)
(***************************************************************************)
EXTENDS Integers, Sequences, FiniteSets, TLC

\* ---------------------------------------------------------------- bounds
\* number of scene objects (rt.objects enumerates them in the order 1..NumObjs)
NumObjs == 2
\* number of renames the artist performs in one behaviour
MaxRenames == 1
\* number of host calls or tag-file accesses made to fail in one behaviour
MaxFaults == 1
\* length of the longest name handed to parse_name
MaxNameLen == 7
\* length of the longest "groups" list of the tag file handed to load_variants
MaxGroups == 2

\* range(4): the LOD ranks the projector and disable_filter look at
NumLodRanks == 4

Objs == 1..NumObjs

\* ---------------------------------------------------------------- strings
Str_LOD0_a_x == <<"L","O","D","0","_","a","_","x">>
Str_l1_A_x == <<"l","1","_","A","_","x">>
Str_lod4_b_x == <<"l","o","d","4","_","b","_","x">>
Str_x == <<"x">>

\* the names an object of the scene may carry
Names == {Str_LOD0_a_x, Str_l1_A_x, Str_lod4_b_x, Str_x}

WrongNames == <<"W","r","o","n","g","N","a","m","e","s">>
\* the host's default layer
DefaultLayer == <<"0">>
VarA == <<"a">>
VarB == <<"b">>
chkEnableFilter ==
    <<"c","h","k","E","n","a","b","l","e","F","i","l","t","e","r">>

NoMatch == <<>>

Digits == {"0","1","2","3","4","5","6","7","8","9"}

DigitVal(c) ==
    CASE c = "0" -> 0 [] c = "1" -> 1 [] c = "2" -> 2 [] c = "3" -> 3
      [] c = "4" -> 4 [] c = "5" -> 5 [] c = "6" -> 6 [] c = "7" -> 7
      [] c = "8" -> 8 [] c = "9" -> 9

DigitChar(n) ==
    CASE n = 0 -> "0" [] n = 1 -> "1" [] n = 2 -> "2" [] n = 3 -> "3"
      [] n = 4 -> "4" [] n = 5 -> "5" [] n = 6 -> "6" [] n = 7 -> "7"
      [] n = 8 -> "8" [] n = 9 -> "9"

\* str.lower() on one character
LowerChar(c) ==
    CASE c = "A" -> "a" [] c = "B" -> "b" [] c = "C" -> "c" [] c = "D" -> "d"
      [] c = "E" -> "e" [] c = "F" -> "f" [] c = "G" -> "g" [] c = "H" -> "h"
      [] c = "I" -> "i" [] c = "J" -> "j" [] c = "K" -> "k" [] c = "L" -> "l"
      [] c = "M" -> "m" [] c = "N" -> "n" [] c = "O" -> "o" [] c = "P" -> "p"
      [] c = "Q" -> "q" [] c = "R" -> "r" [] c = "S" -> "s" [] c = "T" -> "t"
      [] c = "U" -> "u" [] c = "V" -> "v" [] c = "W" -> "w" [] c = "X" -> "x"
      [] c = "Y" -> "y" [] c = "Z" -> "z" [] OTHER -> c

Lower(s) == [i \in 1..Len(s) |-> LowerChar(s[i])]

\* int(): value of a run of decimal digits
RECURSIVE StrToInt(_)
StrToInt(s) ==
    IF s = <<>> THEN 0
    ELSE 10 * StrToInt(SubSeq(s, 1, Len(s) - 1)) + DigitVal(s[Len(s)])

\* str(): decimal digits of a natural number
RECURSIVE IntToStr(_)
IntToStr(n) ==
    IF n < 10 THEN <<DigitChar(n)>>
    ELSE IntToStr(n \div 10) \o <<DigitChar(n % 10)>>

\* length of the longest run of digits of s that starts at position i
RECURSIVE DigitRun(_, _)
DigitRun(s, i) ==
    IF i <= Len(s) /\ s[i] \in Digits THEN 1 + DigitRun(s, i + 1) ELSE 0

\* length of the longest run of characters other than "_" starting at i
RECURSIVE TokenRun(_, _)
TokenRun(s, i) ==
    IF i <= Len(s) /\ s[i] # "_" THEN 1 + TokenRun(s, i + 1) ELSE 0

\* a faulty MatchGroups: the '_' after the token is not asked for
MatchGroups_Loose(s, p, d, t) ==
    IF /\ d >= 1
       /\ p + d + 1 <= Len(s)
       /\ s[p + d + 1] = "_"
       /\ t >= 1
    THEN <<StrToInt(SubSeq(s, p + 1, p + d)),
           Lower(SubSeq(s, p + d + 2, p + d + t + 1))>>
    ELSE NoMatch

\* the two groups of a match whose digits are s[p+1..p+d] and whose token is
\* s[p+d+2..p+d+t+1], or no match
MatchGroups(s, p, d, t) ==
    IF /\ d >= 1
       /\ p + d + 1 <= Len(s)
       /\ s[p + d + 1] = "_"
       /\ t >= 1
       /\ p + d + t + 2 <= Len(s)
       /\ s[p + d + t + 2] = "_"
    THEN <<StrToInt(SubSeq(s, p + 1, p + d)),
           Lower(SubSeq(s, p + d + 2, p + d + t + 1))>>
    ELSE NoMatch

MatchToken(s, p, d) == MatchGroups(s, p, d, TokenRun(s, p + d + 2))

\* (\d+)_([^_]+)_ matched right after a prefix of p characters
MatchAfter(s, p) == MatchToken(s, p, DigitRun(s, p + 1))

\* the alternative l of the prefix, tried when lod did not lead to a match
MatchL(name, m) ==
    IF m # NoMatch THEN m
    ELSE IF Len(name) >= 1 /\ LowerChar(name[1]) = "l" THEN MatchAfter(name, 1)
    ELSE NoMatch

\* _LOD_RE.match(name): the alternatives lod, l are tried in this order
parse_name(name) ==
    MatchL(name,
           IF /\ Len(name) >= 3
              /\ LowerChar(name[1]) = "l"
              /\ LowerChar(name[2]) = "o"
              /\ LowerChar(name[3]) = "d"
           THEN MatchAfter(name, 3)
           ELSE NoMatch)

\* a value handed to parse_name: a str with its characters, or None, or an int
StrValue(chars) == [kind |-> "str", chars |-> chars]
NonStrValues == {[kind |-> "None", chars |-> <<>>], [kind |-> "int", chars |-> <<>>]}

\* parse_name on any value: (None, None) unless the value is a str
parse_name_any(value) ==
    IF value.kind # "str" THEN NoMatch ELSE parse_name(value.chars)

\* f"{variant}_LOD{lod}"
LodLayerName(variant, lod) == variant \o <<"_","L","O","D">> \o IntToStr(lod)
\* f"btnVar_{variant}"
BtnVarKey(variant) == <<"b","t","n","V","a","r","_">> \o variant
\* f"btnL{i}"
BtnLKey(i) == <<"b","t","n","L">> \o IntToStr(i)


\* ---------------------------------------------------------------- state
VARIABLES
    objName,            \* host: object handle -> obj.name
    objLayer,           \* host: object handle -> obj.layer.name
    objHidden,          \* host: object handle -> obj.isHidden
    layerOn,            \* host: layer name -> layer.on, for the layers that exist
    layerParent,        \* host: layer name -> name of its parent, where one was set
    layerCount,         \* host: layer name -> number of layers carrying that name
    tagFile,            \* nametags.json: the list under "groups"
    original_layers,    \* _original_layers
    current_variants,   \* _current_variants
    layer_cache,        \* _layer_cache (the names it holds a layer for)
    layer_nodes,        \* _layer_nodes
    layer_visible,      \* _layer_visible
    last_button_states, \* _last_button_states
    session,            \* "Disabled" or "Enabled": the orchestrator's state
    lastOp,             \* the operation that ran last, its argument and outcome
    renames,            \* renames performed so far
    faults,             \* failures injected so far
    callIn,             \* the argument of a call of parse_name or load_variants
    callOut             \* the call made with it, and what it returned or raised

vars == <<objName, objLayer, objHidden, layerOn, layerParent, layerCount, tagFile,
          original_layers, current_variants, layer_cache, layer_nodes,
          layer_visible, last_button_states, session, lastOp, renames, faults,
          callIn, callOut>>

Range(s) == {s[i] : i \in DOMAIN s}
EmptyMap == <<>>
Put(f, k, v) == [x \in (DOMAIN f) \cup {k} |-> IF x = k THEN v ELSE f[x]]

\* the faults a host call or the tag file can be made to raise, one per operation
Faults == {"none", "save", "setParent", "addNode", "layerOn"}

\* the program state an operation starts from, with an empty log of what it did
World ==
    [objName |-> objName, objLayer |-> objLayer, objHidden |-> objHidden,
     layerOn |-> layerOn, layerParent |-> layerParent, layerCount |-> layerCount,
     tagFile |-> tagFile, original_layers |-> original_layers,
     current_variants |-> current_variants, layer_cache |-> layer_cache,
     layer_nodes |-> layer_nodes, layer_visible |-> layer_visible,
     last_button_states |-> last_button_states,
     raised |-> FALSE,      \* an exception is propagating
     redraws |-> 0,         \* rt.redrawViews() calls
     wroteLayers |-> {},    \* layers whose .on was assigned
     wroteObjs |-> {},      \* objects whose .isHidden was assigned
     changed |-> FALSE,     \* apply_visibility's return value
     failed |-> "none",     \* the call that raised
     suspends |-> 0,        \* rt.disableSceneRedraw() calls
     resumes |-> 0,         \* rt.enableSceneRedraw() calls
     depth |-> 0,           \* scene_redraw_off scopes held
     nested |-> TRUE,       \* every resume so far closed a scope that was held
     outside |-> {},        \* kinds of host mutation made while no scope was held
     unrecorded |-> {},     \* objects moved by addNode without a ledger entry
     parents |-> <<>>]      \* the layers setParent was called on, in call order

\* scene_redraw_off: rt.disableSceneRedraw() on entry
Suspend(w) == [w EXCEPT !.suspends = @ + 1, !.depth = @ + 1]

\* a faulty Resume: rt.enableSceneRedraw() is skipped when an exception propagates
Resume_NoFinally(w) ==
    IF w.raised THEN w
    ELSE [w EXCEPT !.resumes = @ + 1,
                   !.nested = @ /\ w.depth > 0,
                   !.depth = IF @ > 0 THEN @ - 1 ELSE 0]

\* scene_redraw_off: rt.enableSceneRedraw() in the finally clause
Resume(w) ==
    [w EXCEPT !.resumes = @ + 1,
              !.nested = @ /\ w.depth > 0,
              !.depth = IF @ > 0 THEN @ - 1 ELSE 0]

\* the log of mutations made outside a scope, after a mutation of this kind
Outside(w, kind) == IF w.depth = 0 THEN w.outside \cup {kind} ELSE w.outside

\* ---------------------------------------------------------------- registry
\* str < str on the alphabet of variant keys
CharOrd(c) ==
    CASE c \in Digits -> DigitVal(c)
      [] c = "_" -> 20 [] c = "a" -> 30 [] c = "b" -> 31 [] c = "d" -> 32
      [] c = "l" -> 33 [] c = "o" -> 34 [] c = "x" -> 35 [] OTHER -> 40

RECURSIVE StrLess(_, _)
StrLess(s, t) ==
    IF s = <<>> THEN t # <<>>
    ELSE IF t = <<>> THEN FALSE
    ELSE IF s[1] # t[1] THEN CharOrd(s[1]) < CharOrd(t[1])
    ELSE StrLess(Tail(s), Tail(t))

\* sorted(set): the sequence of the elements of S in increasing order
RECURSIVE sorted(_)
sorted(S) ==
    IF S = {} THEN <<>>
    ELSE LET m == CHOOSE x \in S : \A y \in S \ {x} : StrLess(x, y)
         IN  <<m>> \o sorted(S \ {m})

collect_scene_variants(w) ==
    sorted({parse_name(w.objName[o])[2] :
               o \in {p \in Objs : parse_name(w.objName[p]) # NoMatch}})

\* a faulty save_variants: the keys are added to the list the file holds
save_variants_Append(w, fault) ==
    IF fault = "save" THEN [w EXCEPT !.raised = TRUE, !.failed = "save"]
    ELSE [w EXCEPT !.tagFile = @ \o collect_scene_variants(w)]

\* writes the tag file and returns the world; the list written is w.tagFile
save_variants(w, fault) ==
    IF fault = "save" THEN [w EXCEPT !.raised = TRUE, !.failed = "save"]
    ELSE [w EXCEPT !.tagFile = collect_scene_variants(w)]

\* ---------------------------------------------------------------- layer directory
\* lm.newLayerFromName(name): a new layer, visible, without parent
newLayerFromName(w, name) ==
    IF name \in DOMAIN w.layerOn
    THEN [w EXCEPT !.layerCount = Put(@, name, IF @[name] < 2 THEN @[name] + 1 ELSE 2)]
    ELSE [w EXCEPT !.layerOn = Put(@, name, TRUE),
                   !.layerCount = Put(@, name, 1),
                   !.outside = Outside(w, "newLayer")]

\* a faulty get_or_create_layer: it never asks the host for an existing layer
get_or_create_layer_NoLookup(w, name) ==
    IF name \in w.layer_cache THEN w
    ELSE [newLayerFromName(w, name) EXCEPT !.layer_cache = @ \cup {name}]

get_or_create_layer(w, name) ==
    IF name \in w.layer_cache THEN w
    ELSE IF name \in DOMAIN w.layerOn
         THEN [w EXCEPT !.layer_cache = @ \cup {name}]
         ELSE [newLayerFromName(w, name) EXCEPT !.layer_cache = @ \cup {name}]

\* the world after the lookup; the layer is found iff the name is then cached
get_layer_cached(w, name) ==
    IF name \in w.layer_cache THEN w
    ELSE IF name \in DOMAIN w.layerOn
         THEN [w EXCEPT !.layer_cache = @ \cup {name}]
         ELSE w

\* ---------------------------------------------------------------- ledger
\* a faulty record_original_layer: an entry the ledger holds is overwritten
record_original_layer_Overwrite(w, o) ==
    [w EXCEPT !.original_layers = Put(@, o, w.objLayer[o])]

\* a faulty record_original_layer: nothing is recorded
record_original_layer_Skip(w, o) == w

record_original_layer(w, o) ==
    IF o \in DOMAIN w.original_layers THEN w
    ELSE [w EXCEPT !.original_layers = Put(@, o, w.objLayer[o])]

\* ---------------------------------------------------------------- hidden flags
\* [n.handle for n in layer.nodes], or the cached list
collect_layer_handles(w, layer) ==
    IF layer \in DOMAIN w.layer_nodes THEN w.layer_nodes[layer]
    ELSE {o \in Objs : w.objLayer[o] = layer}

\* the cache after _collect_layer_handles(layer)
collect_layer_cache(w, layer) ==
    IF layer \in DOMAIN w.layer_nodes THEN w
    ELSE [w EXCEPT !.layer_nodes = Put(@, layer, collect_layer_handles(w, layer))]

bulk_set_hidden(w, handles, hidden) ==
    IF handles = {} THEN w
    ELSE [w EXCEPT !.objHidden = [o \in Objs |-> IF o \in handles THEN hidden ELSE @[o]],
                   !.wroteObjs = @ \cup handles,
                   !.outside = Outside(w, "isHidden")]

sync_layer_objects_visibility(w, layer) ==
    bulk_set_hidden(collect_layer_cache(w, layer),
                    collect_layer_handles(w, layer),
                    ~w.layerOn[layer])

\* _sync_layer_objects_visibility over a sequence of layers, in order
RECURSIVE SyncAll(_, _)
SyncAll(w, layers) ==
    IF layers = <<>> THEN w
    ELSE SyncAll(sync_layer_objects_visibility(w, Head(layers)), Tail(layers))


\* ---------------------------------------------------------------- structure builder
\* parent_layers = {v: get_or_create_layer(v) for v in variants}
RECURSIVE EnsureLayers(_, _)
EnsureLayers(w, names) ==
    IF names = <<>> THEN w
    ELSE EnsureLayers(get_or_create_layer(w, Head(names)), Tail(names))

\* lod is None or variant not in variants
IsUnmatched(m, variants) == m = NoMatch \/ m[2] \notin Range(variants)

\* lod_layer.setParent(parent_layers[variant])
setParent(w, layer, parent, fault) ==
    IF fault = "setParent" THEN [w EXCEPT !.raised = TRUE, !.failed = "setParent"]
    ELSE [w EXCEPT !.layerParent = Put(@, layer, parent),
                   !.parents = Append(@, layer),
                   !.outside = Outside(w, "setParent")]

\* nodes_by_layer.setdefault(lod_layer_name, []).append(obj)
AppendNode(nodes_by_layer, name, o) ==
    Put(nodes_by_layer, name,
        IF name \in DOMAIN nodes_by_layer THEN Append(nodes_by_layer[name], o)
        ELSE <<o>>)

\* a matched object whose LOD layer this build meets for the first time; w is
\* the world after the layer was ensured and given its parent
ScanNewLayer(b, o, name, w) ==
    IF w.raised THEN [b EXCEPT !.w = w]
    ELSE [b EXCEPT !.w = w,
                   !.lod_layers = Append(@, name),
                   !.nodes_by_layer = AppendNode(@, name, o)]

\* a faulty ScanMatched: the parent is set for every object of a LOD layer
ScanMatched_ParentEach(b, o, variant, name, fault) ==
    IF name \in Range(b.lod_layers)
    THEN [b EXCEPT !.w = setParent(record_original_layer(@, o), name, variant, fault),
                   !.nodes_by_layer = AppendNode(@, name, o)]
    ELSE ScanNewLayer(b, o, name,
                      setParent(get_or_create_layer(record_original_layer(b.w, o), name),
                                name, variant, fault))

ScanMatched(b, o, variant, name, fault) ==
    IF name \in Range(b.lod_layers)
    THEN [b EXCEPT !.w = record_original_layer(@, o),
                   !.nodes_by_layer = AppendNode(@, name, o)]
    ELSE ScanNewLayer(b, o, name,
                      setParent(get_or_create_layer(record_original_layer(b.w, o), name),
                                name, variant, fault))

\* the body of the loop, for an object whose name parsed to m
ScanParsed(b, o, m, variants, assign_wrong, fault) ==
    IF IsUnmatched(m, variants)
    THEN IF assign_wrong
         THEN [b EXCEPT !.w = record_original_layer(@, o),
                        !.wrong_nodes = Append(@, o)]
         ELSE b
    ELSE ScanMatched(b, o, m[2], LodLayerName(m[2], m[1]), fault)

\* one iteration of the loop over rt.objects; b holds the world and the
\* locals lod_layers (keys in insertion order), nodes_by_layer and wrong_nodes
ScanObject(b, o, variants, assign_wrong, fault) ==
    ScanParsed(b, o, parse_name(b.w.objName[o]), variants, assign_wrong, fault)

\* for obj in list(rt.objects), left when an exception propagates
RECURSIVE ScanObjects(_, _, _, _, _)
ScanObjects(b, o, variants, assign_wrong, fault) ==
    IF o > NumObjs \/ b.w.raised THEN b
    ELSE ScanObjects(ScanObject(b, o, variants, assign_wrong, fault),
                     o + 1, variants, assign_wrong, fault)

\* lyr.addNode(obj) for every obj of nodes
addNodes(w, layer, nodes) ==
    [w EXCEPT !.objLayer = [o \in Objs |-> IF o \in Range(nodes) THEN layer ELSE @[o]],
              !.unrecorded = @ \cup (Range(nodes) \ DOMAIN w.original_layers),
              !.outside = IF nodes = <<>> THEN @ ELSE Outside(w, "addNode")]

\* _layer_nodes[name] = [o.handle for o in nodes]; _layer_visible[name] = lyr.on
RememberLayer(w, layer, nodes) ==
    [w EXCEPT !.layer_nodes = Put(@, layer, Range(nodes)),
              !.layer_visible = Put(@, layer, w.layerOn[layer])]

\* the batches of nodes_by_layer: addNode, then the two caches of the layer
RECURSIVE AssignBatches(_, _, _)
AssignBatches(w, names, nodes_by_layer) ==
    IF names = <<>> THEN w
    ELSE AssignBatches(
             RememberLayer(addNodes(w, Head(names), nodes_by_layer[Head(names)]),
                           Head(names), nodes_by_layer[Head(names)]),
             Tail(names), nodes_by_layer)

\* a faulty AssignWrong: the caches are written but no object is moved
AssignWrong_NoAddNode(w, wrong_nodes, assign_wrong) ==
    IF assign_wrong THEN RememberLayer(w, WrongNames, wrong_nodes) ELSE w

\* the batch of the catch-all layer
AssignWrong(w, wrong_nodes, assign_wrong) ==
    IF assign_wrong
    THEN RememberLayer(addNodes(w, WrongNames, wrong_nodes), WrongNames, wrong_nodes)
    ELSE w

\* _layer_visible[layer.name] = bool(getattr(layer, 'on', True))
RememberVisible(w, layer) ==
    [w EXCEPT !.layer_visible = Put(@, layer, w.layerOn[layer])]

\* for layer in parent_layers.values(): sync, then remember its flag
RECURSIVE SyncParents(_, _)
SyncParents(w, names) ==
    IF names = <<>> THEN w
    ELSE SyncParents(
             RememberVisible(sync_layer_objects_visibility(w, Head(names)), Head(names)),
             Tail(names))

\* a faulty SyncWrong: the members of WrongNames are left as they are
SyncWrong_Skip(w, assign_wrong) == w

SyncWrong(w, assign_wrong) ==
    IF assign_wrong THEN sync_layer_objects_visibility(w, WrongNames) ELSE w

\* the block under scene_redraw_off, then rt.redrawViews()
AssignAndSync(b, variants, assign_wrong, fault) ==
    IF b.w.raised THEN b.w
    ELSE IF fault = "addNode" /\ (b.lod_layers # <<>> \/ b.wrong_nodes # <<>>)
    THEN Resume([Suspend(b.w) EXCEPT !.raised = TRUE, !.failed = "addNode"])
    ELSE [Resume(
            SyncWrong(
              SyncAll(
                SyncParents(
                  AssignWrong(AssignBatches(Suspend(b.w), b.lod_layers, b.nodes_by_layer),
                              b.wrong_nodes, assign_wrong),
                  variants),
                b.lod_layers),
              assign_wrong))
          EXCEPT !.redraws = @ + 1]

\* wrong_layer = get_or_create_layer("WrongNames") if assign_wrong else None
EnsureWrong(w, assign_wrong) ==
    IF assign_wrong THEN get_or_create_layer(w, WrongNames) ELSE w

build_structure(w, variants, assign_wrong, fault) ==
    AssignAndSync(
        ScanObjects([w |-> EnsureWrong(EnsureLayers(w, variants), assign_wrong),
                     lod_layers |-> <<>>,
                     nodes_by_layer |-> EmptyMap,
                     wrong_nodes |-> <<>>],
                    1, variants, assign_wrong, fault),
        variants, assign_wrong, fault)


\* ---------------------------------------------------------------- visibility projector
\* button_states.get(key, default)
Get(button_states, key, default) ==
    IF key \in DOMAIN button_states THEN button_states[key] ELSE default

\* the (layer name, desired state) pairs of one variant, in the order of the loop
VariantTargets(button_states, variant, var_visible) ==
    <<<<variant, var_visible>>>> \o
    [k \in 1..NumLodRanks |->
        <<LodLayerName(variant, k - 1),
          var_visible /\ Get(button_states, BtnLKey(k - 1), FALSE)>>]

RECURSIVE AllTargets(_, _)
AllTargets(button_states, variants) ==
    IF variants = <<>> THEN <<>>
    ELSE VariantTargets(button_states, Head(variants),
                        Get(button_states, BtnVarKey(Head(variants)), TRUE))
         \o AllTargets(button_states, Tail(variants))

\* get_layer_cached over the names of the targets, in order
RECURSIVE LookupAll(_, _)
LookupAll(w, targets) ==
    IF targets = <<>> THEN w
    ELSE LookupAll(get_layer_cached(w, Head(targets)[1]), Tail(targets))

\* layer.on = state
setLayerOn(w, layer, state, fault) ==
    IF fault = "layerOn" THEN [w EXCEPT !.raised = TRUE, !.failed = "layerOn"]
    ELSE [w EXCEPT !.layerOn = Put(@, layer, state), !.wroteLayers = @ \cup {layer},
                   !.outside = Outside(w, "layerOn")]

\* a faulty SameAsApplied: _layer_visible is not consulted
SameAsApplied_Never(w, layer, state) == FALSE

\* prev == state, where prev is None for a layer _layer_visible does not hold
SameAsApplied(w, layer, state) ==
    layer \in DOMAIN w.layer_visible /\ w.layer_visible[layer] = state

\* the rest of one iteration, w being the world after layer.on = state
WroteLayer(p, layer, state, w) ==
    IF w.raised THEN [p EXCEPT !.w = w]
    ELSE [w |-> [collect_layer_cache(w, layer)
                   EXCEPT !.layer_visible = Put(@, layer, state), !.changed = TRUE],
          hide |-> IF state THEN p.hide
                   ELSE p.hide \cup collect_layer_handles(w, layer),
          show |-> IF state THEN p.show \cup collect_layer_handles(w, layer)
                   ELSE p.show]

\* one iteration of the loop over layer_visibility.items()
WriteLayer(p, layer, state, fault) ==
    IF SameAsApplied(p.w, layer, state) THEN p
    ELSE WroteLayer(p, layer, state, setLayerOn(p.w, layer, state, fault))

\* the loop; p holds the world and handles_to_hide, handles_to_show
RECURSIVE WriteLayers(_, _, _)
WriteLayers(p, targets, fault) ==
    IF targets = <<>> \/ p.w.raised THEN p
    ELSE WriteLayers(WriteLayer(p, Head(targets)[1], Head(targets)[2], fault),
                     Tail(targets), fault)

\* _bulk_set_hidden(handles_to_hide, True); _bulk_set_hidden(handles_to_show, False)
HideThenShow(p) ==
    IF p.w.raised THEN Resume(p.w)
    ELSE Resume(bulk_set_hidden(bulk_set_hidden(p.w, p.hide, TRUE), p.show, FALSE))

\* the targets whose layer get_layer_cached found
FoundTargets(w, targets) == SelectSeq(targets, LAMBDA t : t[1] \in w.layer_cache)

\* apply_visibility from the point where all the layers were looked up
ApplyFound(w, targets, fault) ==
    HideThenShow(WriteLayers([w |-> Suspend(w), hide |-> {}, show |-> {}],
                             FoundTargets(w, targets), fault))

ApplyTargets(w, targets, fault) == ApplyFound(LookupAll(w, targets), targets, fault)

\* the world after apply_visibility; its return value is the field changed
apply_visibility(w, button_states, variants, fault) ==
    IF button_states = w.last_button_states THEN w
    ELSE ApplyTargets([w EXCEPT !.last_button_states = button_states],
                      AllTargets(button_states, variants), fault)

\* a faulty RedrawIfChanged: the return value of apply_visibility is ignored
RedrawIfChanged_Always(w) ==
    IF ~w.raised THEN [w EXCEPT !.redraws = @ + 1] ELSE w

\* if apply_visibility(...): rt.redrawViews()
RedrawIfChanged(w) ==
    IF ~w.raised /\ w.changed THEN [w EXCEPT !.redraws = @ + 1] ELSE w

\* a faulty apply_filter_from_button_states: chkEnableFilter is not read
apply_filter_from_button_states_NoFlag(w, button_states, fault) ==
    RedrawIfChanged(apply_visibility(w, button_states, w.current_variants, fault))

apply_filter_from_button_states(w, button_states, fault) ==
    IF ~Get(button_states, chkEnableFilter, FALSE)
    THEN [w EXCEPT !.redraws = @ + 1]
    ELSE RedrawIfChanged(apply_visibility(w, button_states, w.current_variants, fault))

\* ---------------------------------------------------------------- restore
RECURSIVE LookupNames(_, _)
LookupNames(w, names) ==
    IF names = {} THEN w
    ELSE LookupNames(get_layer_cached(w, CHOOSE x \in names : TRUE),
                     names \ {CHOOSE x \in names : TRUE})

\* the ledger entries whose layer get_layer_cached resolved
Restorable(w) ==
    {o \in DOMAIN w.original_layers : w.original_layers[o] \in w.layer_cache}

\* a faulty ReAddNodes: the objects are re-added but isHidden is not assigned
ReAddNodes_NoHidden(w, nodes, fault) ==
    IF fault = "addNode" /\ nodes # {}
    THEN [w EXCEPT !.raised = TRUE, !.failed = "addNode"]
    ELSE [w EXCEPT
            !.objLayer = [o \in Objs |->
                             IF o \in nodes THEN w.original_layers[o] ELSE @[o]],
            !.original_layers = EmptyMap]

\* lyr.addNode(node); node.isHidden = not lyr.on, for every pair that resolved
ReAddNodes(w, nodes, fault) ==
    IF fault = "addNode" /\ nodes # {}
    THEN [w EXCEPT !.raised = TRUE, !.failed = "addNode"]
    ELSE [w EXCEPT
            !.objLayer = [o \in Objs |->
                             IF o \in nodes THEN w.original_layers[o] ELSE @[o]],
            !.objHidden = [o \in Objs |->
                              IF o \in nodes THEN ~w.layerOn[w.original_layers[o]]
                              ELSE @[o]],
            !.wroteObjs = @ \cup nodes,
            !.outside = IF nodes = {} THEN @ ELSE Outside(w, "addNode"),
            !.original_layers = EmptyMap]

RestoreLookedUp(w, fault) == Resume(ReAddNodes(Suspend(w), Restorable(w), fault))

restore_original_layers(w, fault) ==
    RestoreLookedUp(
        LookupNames([w EXCEPT !.layer_nodes = EmptyMap],
                    {w.original_layers[o] : o \in DOMAIN w.original_layers}),
        fault)

\* ---------------------------------------------------------------- orchestrator
\* rt.redrawViews() at the end of an operation that did not raise
Redraw(w) == IF w.raised THEN w ELSE [w EXCEPT !.redraws = @ + 1]

\* enable_filter from the point where save_variants returned
EnableSaved(w, fault) ==
    IF w.raised THEN w
    ELSE Redraw(build_structure([w EXCEPT !.current_variants = w.tagFile,
                                          !.layer_cache = {},
                                          !.layer_nodes = EmptyMap,
                                          !.layer_visible = EmptyMap,
                                          !.last_button_states = EmptyMap],
                                w.tagFile, TRUE, fault))

enable_filter(w, fault) == EnableSaved(save_variants(w, fault), fault)

\* the names of the layers lm.getLayerFromName finds among the targets
TargetNames(targets) == [i \in 1..Len(targets) |-> targets[i][1]]

\* a faulty LayersToShow: the LOD layers of the variants are left out
LayersToShow_VariantsOnly(w) ==
    SelectSeq(w.current_variants, LAMBDA v : v \in DOMAIN w.layerOn)

\* layers_to_show of disable_filter
LayersToShow(w) ==
    TargetNames(SelectSeq(AllTargets(EmptyMap, w.current_variants),
                          LAMBDA t : t[1] \in DOMAIN w.layerOn))

\* for lyr in layers_to_show: lyr.on = True
RECURSIVE ShowAll(_, _, _)
ShowAll(w, layers, fault) ==
    IF layers = <<>> \/ w.raised THEN w
    ELSE ShowAll(setLayerOn(w, Head(layers), TRUE, fault), Tail(layers), fault)

\* a faulty SyncAndClear: _layer_cache is not cleared
SyncAndClear_KeepCache(w, layers) ==
    IF w.raised THEN Resume(w)
    ELSE [Resume(SyncAll(w, layers)) EXCEPT !.layer_nodes = EmptyMap,
                                    !.layer_visible = EmptyMap,
                                    !.last_button_states = EmptyMap,
                                    !.current_variants = <<>>,
                                    !.redraws = @ + 1]

\* the end of disable_filter: sync the layers shown, drop the session state
SyncAndClear(w, layers) ==
    IF w.raised THEN Resume(w)
    ELSE [Resume(SyncAll(w, layers)) EXCEPT !.layer_cache = {},
                                    !.layer_nodes = EmptyMap,
                                    !.layer_visible = EmptyMap,
                                    !.last_button_states = EmptyMap,
                                    !.current_variants = <<>>,
                                    !.redraws = @ + 1]

\* disable_filter from the point where restore_original_layers returned
DisableRestored(w, layers, fault) ==
    IF w.raised THEN w ELSE SyncAndClear(ShowAll(Suspend(w), layers, fault), layers)

RestoredThenShow(w, fault) == DisableRestored(w, LayersToShow(w), fault)

disable_filter(w, fault) == RestoredThenShow(restore_original_layers(w, fault), fault)

\* make_layers from the point where save_variants returned
MakeSaved(w, fault) ==
    IF w.raised THEN w ELSE Redraw(build_structure(w, w.tagFile, TRUE, fault))

make_layers(w, fault) == MakeSaved(save_variants(w, fault), fault)


\* ---------------------------------------------------------------- actions
\* the snapshots the panel hands to apply_filter_from_button_states
UIStates ==
    { EmptyMap,
      (chkEnableFilter :> FALSE) @@ (BtnLKey(0) :> TRUE),
      (chkEnableFilter :> TRUE) @@ (BtnLKey(0) :> TRUE),
      (chkEnableFilter :> TRUE) @@ (BtnLKey(0) :> TRUE) @@ (BtnLKey(1) :> FALSE)
          @@ (BtnVarKey(VarA) :> FALSE) @@ (BtnVarKey(VarB) :> FALSE),
      (chkEnableFilter :> TRUE) @@ (BtnLKey(0) :> FALSE) @@ (BtnLKey(1) :> TRUE)
          @@ (BtnVarKey(VarA) :> TRUE) }

\* what the scene looked like right before the enable_filter call that the
\* last operation was, or that the last operation (a disable_filter) followed
NoSnapshot == [layer |-> EmptyMap, hidden |-> EmptyMap, on |-> EmptyMap]
Snapshot == [layer |-> objLayer, hidden |-> objHidden, on |-> layerOn]

\* the outcome w of operation op becomes the next state
Commit(w, op, arg, before) ==
    /\ objName' = w.objName
    /\ objLayer' = w.objLayer
    /\ objHidden' = w.objHidden
    /\ layerOn' = w.layerOn
    /\ layerParent' = w.layerParent
    /\ layerCount' = w.layerCount
    /\ tagFile' = w.tagFile
    /\ original_layers' = w.original_layers
    /\ current_variants' = w.current_variants
    /\ layer_cache' = w.layer_cache
    /\ layer_nodes' = w.layer_nodes
    /\ layer_visible' = w.layer_visible
    /\ last_button_states' = w.last_button_states
    /\ lastOp' = [op |-> op, arg |-> arg, raised |-> w.raised, redraws |-> w.redraws,
                  wroteLayers |-> w.wroteLayers, wroteObjs |-> w.wroteObjs,
                  changed |-> w.changed,
                  failed |-> w.failed, suspends |-> w.suspends,
                  resumes |-> w.resumes, depth |-> w.depth, nested |-> w.nested,
                  outside |-> w.outside, unrecorded |-> w.unrecorded,
                  parents |-> w.parents,
                  repeat |-> (lastOp.op = op /\ lastOp.arg = arg /\ ~lastOp.raised),
                  before |-> before]
    /\ UNCHANGED <<renames, callIn, callOut>>

\* an operation may be given a failure while the budget lasts
Inject(fault) ==
    /\ fault # "none" => faults < MaxFaults
    /\ faults' = IF fault = "none" THEN faults ELSE faults + 1

Enable(fault) ==
    \E w \in {enable_filter(World, fault)} :
        /\ Inject(fault)
        /\ Commit(w, "enable", EmptyMap, Snapshot)
        /\ session' = IF w.raised THEN session ELSE "Enabled"

Disable(fault) ==
    \E w \in {disable_filter(World, fault)} :
        /\ Inject(fault)
        /\ Commit(w, "disable", EmptyMap,
                  IF lastOp.op = "enable" /\ ~lastOp.raised THEN lastOp.before
                  ELSE NoSnapshot)
        /\ session' = IF w.raised THEN session ELSE "Disabled"

MakeLayers(fault) ==
    \E w \in {make_layers(World, fault)} :
        /\ Inject(fault)
        /\ Commit(w, "make_layers", EmptyMap, NoSnapshot)
        /\ UNCHANGED session

ApplyFilter(button_states, fault) ==
    \E w \in {apply_filter_from_button_states(World, button_states, fault)} :
        /\ Inject(fault)
        /\ Commit(w, "apply", button_states, NoSnapshot)
        /\ UNCHANGED session

\* the artist renames an object between two calls of the engine
Rename(o, name) ==
    /\ renames < MaxRenames
    /\ name # objName[o]
    /\ objName' = [objName EXCEPT ![o] = name]
    /\ renames' = renames + 1
    /\ lastOp' = [op |-> "rename", arg |-> EmptyMap, raised |-> FALSE, redraws |-> 0,
                  wroteLayers |-> {}, wroteObjs |-> {}, changed |-> FALSE,
                  failed |-> "none", suspends |-> 0, resumes |-> 0, depth |-> 0,
                  nested |-> TRUE, outside |-> {}, unrecorded |-> {},
                  parents |-> <<>>,
                  repeat |-> FALSE, before |-> NoSnapshot]
    /\ UNCHANGED <<objLayer, objHidden, layerOn, layerParent, layerCount, tagFile,
                   original_layers, current_variants, layer_cache, layer_nodes,
                   layer_visible, last_button_states, session, faults,
                   callIn, callOut>>

\* no call of parse_name or load_variants is looked at
NoCall == [fn |-> "none"]

\* the names the objects carry when the panel is opened
InitNames == {Str_LOD0_a_x, Str_x}

\* the layers of the scene before the engine ran: the default layer and a
\* layer that carries the name of a variant
InitLayers == {DefaultLayer, VarA}

Init ==
    /\ objName \in [Objs -> InitNames]
    /\ objLayer \in [Objs -> InitLayers]
    /\ objHidden \in [Objs -> BOOLEAN]
    /\ layerOn \in [InitLayers -> BOOLEAN]
    /\ layerParent = EmptyMap
    /\ layerCount = [n \in InitLayers |-> 1]
    /\ tagFile = <<>>
    /\ original_layers = EmptyMap
    /\ current_variants = <<>>
    /\ layer_cache = {}
    /\ layer_nodes = EmptyMap
    /\ layer_visible = EmptyMap
    /\ last_button_states = EmptyMap
    /\ session = "Disabled"
    /\ lastOp = [op |-> "init", arg |-> EmptyMap, raised |-> FALSE, redraws |-> 0,
                 wroteLayers |-> {}, wroteObjs |-> {}, changed |-> FALSE,
                  failed |-> "none", suspends |-> 0, resumes |-> 0, depth |-> 0,
                  nested |-> TRUE, outside |-> {}, unrecorded |-> {},
                  parents |-> <<>>,
                 repeat |-> FALSE, before |-> NoSnapshot]
    /\ renames = 0
    /\ faults = 0
    /\ callIn = NoCall
    /\ callOut = NoCall

\* the calls the panel makes, and the renames of the artist in between
Next ==
    \/ Enable("none")
    \/ Disable("none")
    \/ MakeLayers("none")
    \/ \E button_states \in UIStates : ApplyFilter(button_states, "none")
    \/ \E o \in Objs, name \in Names : Rename(o, name)

Spec == Init /\ [][Next]_vars

\* the same calls, one of them with a failing host call or tag-file write
NextFaults ==
    \/ \E fault \in {"none", "save", "setParent", "addNode"} : Enable(fault)
    \/ \E fault \in {"none", "addNode", "layerOn"} : Disable(fault)
    \/ \E fault \in {"none", "save", "setParent", "addNode"} : MakeLayers(fault)
    \/ \E button_states \in UIStates, fault \in {"none", "layerOn"} :
           ApplyFilter(button_states, fault)

SpecFaults == Init /\ [][NextFaults]_vars

\* ---------------------------------------------------------------- single calls
\* the characters of the names handed to parse_name
NameAlphabet == {"L", "o", "d", "2", "_"}

Str_LOD2_Sport_body ==
    <<"L","O","D","2","_","S","p","o","r","t","_","b","o","d","y">>
Str_randomName == <<"r","a","n","d","o","m","N","a","m","e">>
Str_l0_base == <<"l","0","_","b","a","s","e">>

\* the values handed to parse_name
ParseInputs ==
    NonStrValues
    \cup {StrValue(chars) :
            chars \in UNION {[1..n -> NameAlphabet] : n \in 0..MaxNameLen}}
    \cup {StrValue(Str_LOD2_Sport_body), StrValue(Str_randomName),
          StrValue(Str_l0_base)}

\* what nametags.json may hold when load_variants runs: nothing (no file),
\* text that is not JSON, an object without "groups", an object with a list
FileContents ==
    {[kind |-> k, groups |-> <<>>] : k \in {"absent", "malformed", "object"}}
    \cup {[kind |-> "object", groups |-> g] :
            g \in UNION {[1..n -> {<<"a">>, <<"B">>}] : n \in 1..MaxGroups}}

\* load_variants on a tag file with the given content: json.load raises on
\* text that is not JSON
load_variants(file) ==
    IF file.kind = "absent" THEN [raised |-> FALSE, value |-> <<>>]
    ELSE IF file.kind = "malformed" THEN [raised |-> TRUE, value |-> <<>>]
    ELSE [raised |-> FALSE,
          value |-> [i \in 1..Len(file.groups) |-> Lower(file.groups[i])]]

ParseName ==
    /\ callIn.fn = "parse_name"
    /\ callOut' = [fn |-> "parse_name", raised |-> FALSE,
                   value |-> parse_name_any(callIn.arg)]
    /\ UNCHANGED <<objName, objLayer, objHidden, layerOn, layerParent, layerCount,
                   tagFile, original_layers, current_variants, layer_cache,
                   layer_nodes, layer_visible, last_button_states, session,
                   lastOp, renames, faults, callIn>>

LoadVariants ==
    /\ callIn.fn = "load_variants"
    /\ callOut' = [fn |-> "load_variants",
                   raised |-> load_variants(callIn.arg).raised,
                   value |-> load_variants(callIn.arg).value]
    /\ UNCHANGED <<objName, objLayer, objHidden, layerOn, layerParent, layerCount,
                   tagFile, original_layers, current_variants, layer_cache,
                   layer_nodes, layer_visible, last_button_states, session,
                   lastOp, renames, faults, callIn>>

\* a call of parse_name or of load_variants on an engine that is at rest
InitCalls ==
    /\ objName = [o \in Objs |-> Str_x]
    /\ objLayer = [o \in Objs |-> DefaultLayer]
    /\ objHidden = [o \in Objs |-> FALSE]
    /\ layerOn = [n \in InitLayers |-> TRUE]
    /\ layerParent = EmptyMap
    /\ layerCount = [n \in InitLayers |-> 1]
    /\ tagFile = <<>>
    /\ original_layers = EmptyMap
    /\ current_variants = <<>>
    /\ layer_cache = {}
    /\ layer_nodes = EmptyMap
    /\ layer_visible = EmptyMap
    /\ last_button_states = EmptyMap
    /\ session = "Disabled"
    /\ lastOp = [op |-> "init"]
    /\ renames = 0
    /\ faults = 0
    /\ callIn \in {[fn |-> "parse_name", arg |-> v] : v \in ParseInputs}
                \cup {[fn |-> "load_variants", arg |-> f] : f \in FileContents}
    /\ callOut = NoCall

NextCalls == ParseName \/ LoadVariants

SpecCalls == InitCalls /\ [][NextCalls]_vars


\* ---------------------------------------------------------------- claims
\* the filter-enabled flag of a snapshot
FilterFlag(button_states) == Get(button_states, chkEnableFilter, FALSE)

\* the last operation was disable_filter, it returned, and the operation
\* before it was an enable_filter that returned
EnabledThenDisabled ==
    lastOp.op = "disable" /\ ~lastOp.raised /\ lastOp.before # NoSnapshot

\* every <variant>_LOD<n> name an object name of the model can lead to
LodLayerNames ==
    {LodLayerName(parse_name(n)[2], parse_name(n)[1]) :
        n \in {x \in Names : parse_name(x) # NoMatch}}

\* C1: after enable() followed by disable(), every scene object is a member
\* of the layer it was a member of immediately before that enable().
C1_RoundTripLayer ==
    EnabledThenDisabled => \A o \in Objs : objLayer[o] = lastOp.before.layer[o]

\* C2 as stated: after enable() followed by disable(), every scene object's
\* hidden flag equals the value it had immediately before enable().
C2_RoundTripHidden ==
    EnabledThenDisabled => \A o \in Objs : objHidden[o] = lastOp.before.hidden[o]

\* C2 as amended: after enable() followed by disable(), every scene object's
\* hidden flag is the negation of the visibility flag of the layer it is in.
C2_HiddenFollowsLayer ==
    EnabledThenDisabled => \A o \in Objs : objHidden[o] = ~layerOn[objLayer[o]]

\* an enable/disable round trip that changed the hidden flag of an object
C2_Witness ==
    EnabledThenDisabled /\ \E o \in Objs : objHidden[o] # lastOp.before.hidden[o]


\* the value the composition law gives the LOD layer of rank i of variant v
Composed(button_states, v, i) ==
    Get(button_states, BtnVarKey(v), TRUE) /\ Get(button_states, BtnLKey(i), FALSE)

\* C3: in an enabled session, after applyFilter(uiState) with the flag true,
\* every existing layer v_LOD<i>, v a current variant and i in 0..3, is
\* visible iff the toggle of v (default true) and of rank i (default false)
\* both hold.
C3_Composition ==
    (session = "Enabled" /\ lastOp.op = "apply" /\ ~lastOp.raised
        /\ FilterFlag(lastOp.arg))
    => \A v \in Range(current_variants), i \in 0..(NumLodRanks - 1) :
           LodLayerName(v, i) \in DOMAIN layerOn
           => (layerOn[LodLayerName(v, i)] <=> Composed(lastOp.arg, v, i))

\* C4 as stated: the second of two applyFilter(s) calls in a row reports no
\* change, writes no layer flag and no hidden flag and requests no redraw.
C4_SecondApplyQuiet ==
    (lastOp.op = "apply" /\ lastOp.repeat)
    => /\ ~lastOp.changed
       /\ lastOp.wroteLayers = {}
       /\ lastOp.wroteObjs = {}
       /\ lastOp.redraws = 0

\* C4 as amended: the second of two applyFilter(s) calls in a row reports no
\* change and writes no layer flag and no hidden flag; it requests no redraw
\* when the flag of s is true, and one redraw when it is false or absent.
C4_SecondApplyWritesNothing ==
    (lastOp.op = "apply" /\ lastOp.repeat)
    => /\ ~lastOp.changed
       /\ lastOp.wroteLayers = {}
       /\ lastOp.wroteObjs = {}
       /\ lastOp.redraws = IF FilterFlag(lastOp.arg) THEN 0 ELSE 1

\* a second applyFilter(s) in a session whose first call had layers to write
C4_Witness ==
    /\ lastOp.op = "apply" /\ lastOp.repeat /\ FilterFlag(lastOp.arg)
    /\ session = "Enabled"
    /\ \E n \in DOMAIN layerOn : ~layerOn[n] /\ n \in DOMAIN layer_visible

\* C5: after build (as run by enable() or rebuildLayers()), every object
\* whose name fails parse, or whose variant is not among the variants given
\* to build, is a member of WrongNames and of no <variant>_LOD<n> layer.
C5_UnmatchedInWrongNames ==
    (lastOp.op \in {"enable", "make_layers"} /\ ~lastOp.raised)
    => \A o \in Objs :
           IsUnmatched(parse_name(objName[o]), tagFile)
           => objLayer[o] = WrongNames /\ objLayer[o] \notin LodLayerNames

\* a build that put one object into WrongNames and another into a LOD layer
C5_Witness ==
    /\ lastOp.op \in {"enable", "make_layers"} /\ ~lastOp.raised
    /\ \E o \in Objs : parse_name(objName[o]) = NoMatch /\ objLayer[o] = WrongNames
    /\ \E o \in Objs : objLayer[o] \in LodLayerNames

\* C6: the second of two rebuildLayers() calls in a row leaves no two host
\* layers with the same name and leaves every object in the layer the first
\* call put it in.
C6_RebuildIdempotent ==
    [][(lastOp'.op = "make_layers" /\ lastOp'.repeat)
       => /\ objLayer' = objLayer
          /\ \A n \in DOMAIN layerCount' : layerCount'[n] = 1]_vars

\* a second rebuildLayers() over a scene with LOD layers of two objects
C6_Witness ==
    /\ lastOp.op = "make_layers" /\ lastOp.repeat
    /\ \E o \in Objs : objLayer[o] \in LodLayerNames
    /\ \E o \in Objs : objLayer[o] = WrongNames

\* C7: every public operation returns normally, whatever single host call
\* or tag-file access fails during it.
C7_NoExceptionEscapes == ~lastOp.raised

\* C8: applyFilter(uiState) whose flag is false or absent leaves every layer
\* visibility flag, every hidden flag, the last-applied snapshot and the
\* per-layer last-applied map unchanged.
C8_FlagOffIsNoOp ==
    [][(lastOp'.op = "apply" /\ ~FilterFlag(lastOp'.arg))
       => /\ UNCHANGED <<layerOn, objHidden, last_button_states, layer_visible>>
          /\ lastOp'.wroteLayers = {}
          /\ lastOp'.wroteObjs = {}]_vars

\* a flag-off applyFilter in an enabled session that holds a snapshot and a
\* layer the projector turned off
C8_Witness ==
    /\ lastOp.op = "apply" /\ ~FilterFlag(lastOp.arg)
    /\ session = "Enabled"
    /\ FilterFlag(last_button_states)
    /\ \E n \in DOMAIN layer_visible : ~layer_visible[n]

\* C9: after disable() returns, every existing variant layer and layer
\* v_LOD0..v_LOD3 of the variants that were current when it was called is
\* visible, and no member object of such a layer is hidden.
C9_DisableShowsLayers ==
    [][(lastOp'.op = "disable" /\ ~lastOp'.raised)
       => \A i \in 1..Len(AllTargets(EmptyMap, current_variants)) :
            AllTargets(EmptyMap, current_variants)[i][1] \in DOMAIN layerOn'
            => /\ layerOn'[AllTargets(EmptyMap, current_variants)[i][1]]
               /\ \A o \in Objs :
                    objLayer'[o] = AllTargets(EmptyMap, current_variants)[i][1]
                    => ~objHidden'[o]]_vars

\* a disable() that turned layers on and left an object in a variant layer
C9_Witness ==
    /\ lastOp.op = "disable" /\ ~lastOp.raised
    /\ VarA \in lastOp.wroteLayers
    /\ \E o \in Objs : objLayer[o] = VarA /\ o \in lastOp.wroteObjs

\* the session state of the engine is empty
SessionStateEmpty ==
    /\ layer_cache = {}
    /\ DOMAIN original_layers = {}
    /\ DOMAIN last_button_states = {}
    /\ DOMAIN layer_visible = {}
    /\ current_variants = <<>>

\* C10 as stated: in every state in which the session is Disabled, the layer
\* cache, the ledger, the last-applied snapshot, the per-layer map and the
\* current-variant list are all empty.
C10_DisabledIsEmpty == session = "Disabled" => SessionStateEmpty

\* C10 as amended: initially, and right after every disable() that returns,
\* the layer cache, the ledger, the last-applied snapshot, the per-layer map
\* and the current-variant list are all empty.
C10_EmptyAfterDisable ==
    (lastOp.op \in {"init", "disable"} /\ ~lastOp.raised) => SessionStateEmpty

\* a disable() that ended a session which had built LOD layers
C10_Witness ==
    /\ EnabledThenDisabled
    /\ \E n \in LodLayerNames : n \in DOMAIN layerOn

\* the last operation was a build (enable_filter or make_layers) that returned
BuildReturned == lastOp.op \in {"enable", "make_layers"} /\ ~lastOp.raised

\* C11: immediately after enable() or rebuildLayers(), the persisted tag list
\* is the sorted, duplicate-free list of the variant keys the names of the
\* scene objects parse to; no other key of the previous content survives.
C11_TagListReflectsScene ==
    BuildReturned
    => /\ Range(tagFile) =
              {parse_name(objName[o])[2] :
                  o \in {p \in Objs : parse_name(objName[p]) # NoMatch}}
       /\ \A i, j \in DOMAIN tagFile : i < j => StrLess(tagFile[i], tagFile[j])

\* a rebuildLayers() after which the key of an earlier session, whose LOD
\* layer still exists, is no longer in the tag list
C11_Witness ==
    /\ lastOp.op = "make_layers" /\ ~lastOp.raised
    /\ LodLayerName(VarA, 0) \in DOMAIN layerOn
    /\ VarA \notin Range(tagFile)

\* the characters s[i..j] are all digits / all other than "_"
AllDigits(s, i, j) == \A k \in i..j : s[k] \in Digits
NoUnderscore(s, i, j) == \A k \in i..j : s[k] # "_"

\* s starts with a prefix of p characters ('l' or 'lod', any case), d digits,
\* '_', t characters other than '_', and '_'
HasLodForm(s, p, d, t) ==
    /\ p + d + t + 2 <= Len(s)
    /\ Lower(SubSeq(s, 1, p)) = IF p = 1 THEN <<"l">> ELSE <<"l","o","d">>
    /\ AllDigits(s, p + 1, p + d)
    /\ s[p + d + 1] = "_"
    /\ NoUnderscore(s, p + d + 2, p + d + t + 1)
    /\ s[p + d + t + 2] = "_"

\* the ways in which s has that form
LodForms(s) ==
    {f \in {1, 3} \X (1..Len(s)) \X (1..Len(s)) : HasLodForm(s, f[1], f[2], f[3])}

\* the call looked at was made
Called(fn) == callIn.fn = fn /\ callOut.fn = fn

C13_LoadNeverFails ==
    Called("load_variants")
    => /\ ~callOut.raised
       /\ callIn.arg.kind \in {"absent", "malformed"} => callOut.value = <<>>

\* C14: after any public operation ends, by return or by exception, the
\* redraw-suspend calls and the redraw-resume calls are equal in number, every
\* resume closed a scope that was held, and no scope is left held.
C14_SuspensionReleased ==
    /\ lastOp.suspends = lastOp.resumes
    /\ lastOp.nested
    /\ lastOp.depth = 0

\* an operation that raised at a host call made inside a redraw-off scope
C14_Witness ==
    /\ lastOp.raised
    /\ lastOp.failed \in {"addNode", "layerOn"}
    /\ lastOp.suspends >= 1

\* C15: no operation other than disable() changes or removes an entry the
\* ledger holds.
C15_LedgerFirstWriteWins ==
    [][lastOp'.op # "disable"
       => \A o \in DOMAIN original_layers :
            /\ o \in DOMAIN original_layers'
            /\ original_layers'[o] = original_layers[o]]_vars

\* a second enable() in a row after which the ledger still names a layer
\* other than the one the object was in when that enable() was called
C15_Witness ==
    /\ lastOp.op = "enable" /\ lastOp.repeat /\ ~lastOp.raised
    /\ \E o \in DOMAIN original_layers :
          original_layers[o] # lastOp.before.layer[o]

\* C16: during build, every object whose layer membership the engine changes
\* has a ledger entry at the moment of the change.
C16_RecordBeforeMove ==
    lastOp.op \in {"enable", "make_layers"} => lastOp.unrecorded = {}

\* an enable() that moved an object out of the layer it was in
C16_Witness ==
    /\ lastOp.op = "enable" /\ ~lastOp.raised
    /\ \E o \in Objs :
          /\ objLayer[o] # lastOp.before.layer[o]
          /\ o \in DOMAIN original_layers

\* C17: after restoreAll ends (as run by disable()), the ledger is empty,
\* also when a host call failed while an object was re-added.
C17_RestoreClearsLedger ==
    lastOp.op = "disable" => DOMAIN original_layers = {}

\* the layer build sends object o to, given the variants of the tag list
Destination(o) ==
    IF IsUnmatched(parse_name(objName[o]), tagFile) THEN WrongNames
    ELSE LodLayerName(parse_name(objName[o])[2], parse_name(objName[o])[1])

\* C18: when setting the parent of a LOD layer raises during build, every
\* object of the scene is still in its destination layer at the end of build.
C18_ParentFailureNonFatal ==
    (lastOp.op \in {"enable", "make_layers"} /\ lastOp.failed = "setParent")
    => \A o \in Objs : objLayer[o] = Destination(o)

\* C19: when adding one object to its destination layer raises during build,
\* every other object is still in its destination layer at the end of build.
C19_AddFailureIsolated ==
    (lastOp.op \in {"enable", "make_layers"} /\ lastOp.failed = "addNode")
    => Cardinality({o \in Objs : objLayer[o] # Destination(o)}) <= 1

\* C20: every host mutation of build (creating layers, setting a parent,
\* adding objects, writing hidden flags) is made while the redraw-off scope
\* is held.
C20_BuildUnderSuspension ==
    lastOp.op \in {"enable", "make_layers"} => lastOp.outside = {}

\* the state the targets ask for the layer named n
TargetState(targets, n) ==
    targets[CHOOSE i \in 1..Len(targets) : targets[i][1] = n][2]

C22_LayerTree ==
    /\ \A n \in DOMAIN layerParent :
          /\ \E x \in {y \in Names : parse_name(y) # NoMatch} :
                /\ n = LodLayerName(parse_name(x)[2], parse_name(x)[1])
                /\ layerParent[n] = parse_name(x)[2]
          /\ layerParent[n] \notin DOMAIN layerParent
          /\ layerParent[n] # n
    /\ WrongNames \notin DOMAIN layerParent
    /\ lastOp.op \in {"enable", "make_layers"}
       => \A i, j \in DOMAIN lastOp.parents :
            i # j => lastOp.parents[i] # lastOp.parents[j]

\* a build that put two objects into one LOD layer and set its parent once
C22_Witness ==
    /\ BuildReturned
    /\ Len(lastOp.parents) = 1
    /\ \A o \in Objs : objLayer[o] = lastOp.parents[1]

\* C23: when build finishes, every member of a variant layer, of a LOD layer
\* or of the catch-all layer it touched has its hidden flag equal to the
\* negation of the visibility flag of that layer.
C23_BuildPropagates ==
    BuildReturned
    => \A o \in Objs :
         objLayer[o] \in Range(tagFile) \cup {Destination(p) : p \in Objs}
                          \cup {WrongNames}
         => objHidden[o] = ~layerOn[objLayer[o]]

\* a rebuildLayers() that left an object hidden in a LOD layer that
\* applyFilter had turned off, and another object shown in WrongNames
C23_Witness ==
    /\ lastOp.op = "make_layers" /\ ~lastOp.raised
    /\ \E o \in Objs : objLayer[o] \in LodLayerNames /\ objHidden[o]
    /\ \E o \in Objs : objLayer[o] = WrongNames /\ ~objHidden[o]

\* C24: applyFilter changes the hidden flag only of objects that are, at the
\* time of the call, members of a layer whose visibility flag that call wrote.
C24_OnlyCurrentMembers ==
    [][lastOp'.op = "apply"
       => \A o \in Objs :
            objHidden'[o] # objHidden[o] => objLayer[o] \in lastOp'.wroteLayers]_vars

\* C25: in every Enabled state the current-variant list equals the list
\* stored in the tag file.
C25_VariantsMatchTagFile == session = "Enabled" => current_variants = tagFile

\* C26: in an enabled session, after applyFilter with the flag true and the
\* toggle of variant v false, every object that build placed in a LOD layer
\* of v, whatever its LOD index, is hidden.
C26_VariantOffHidesAll ==
    (session = "Enabled" /\ lastOp.op = "apply" /\ ~lastOp.raised
        /\ FilterFlag(lastOp.arg))
    => \A v \in Range(current_variants) :
         ~Get(lastOp.arg, BtnVarKey(v), TRUE)
         => \A o \in Objs :
              (/\ parse_name(objName[o]) # NoMatch
               /\ parse_name(objName[o])[2] = v
               /\ objLayer[o] = LodLayerName(v, parse_name(objName[o])[1]))
              => objHidden[o]

====
